---- MODULE Spec2Model ----
(***************************************************************************)
(* A model of hera's Workflow (src/src/hera/workflow.py) and EnvSpec       *)
(* (src/src/hera/env.py).                                                  *)
(*                                                                         *)
(* Python values are tagged records (field "t" is the Python type).  A     *)
(* Python str is the sequence of its characters, each a one-character      *)
(* string.                                                                 *)
(***************************************************************************)
EXTENDS Integers, Sequences, FiniteSets, TLC

VARIABLES
    workflows,     \* Workflow objects: name -> the attributes __init__ sets
    dags,          \* DAG objects: name -> the DAG
    tasks,         \* Task objects, in the order of their construction
    dag_context,   \* hera.dag_context: the process-wide stack of entered DAGs
    with_open,     \* the workflows whose `with` block the caller is inside
    service_calls, \* the manifests handed to service.create_workflow, in order
    ret,           \* the outcome of the last call: what it returned or raised
    env            \* the EnvSpec of the environment-variable specification

vars == <<workflows, dags, tasks, dag_context, with_open, service_calls, ret, env>>

----------------------------------------------------------------------------
(* Bounds of the model.                                                    *)

\* The longest list, tuple or dict drawn as a literal environment value.
MaxLen == 2
\* The most optional constructor arguments given a value at once.
MaxOptionsSet == 2
\* The most Task objects constructed in one run.
MaxTasks == 2
\* The most manifests the service is handed in one run.
MaxCreate == 1
\* The longest task list add_task and add_tasks grow a DAG to.
MaxDagTasks == 2

----------------------------------------------------------------------------
(* Python values.                                                          *)

PyNone == [t |-> "NoneType"]
PyBool(b) == [t |-> "bool", b |-> b]
PyInt(n) == [t |-> "int", n |-> n]
PyStr(s) == [t |-> "str", s |-> s]
PyList(items) == [t |-> "list", items |-> items]
PyTuple(items) == [t |-> "tuple", items |-> items]
\* A dict is its entries in insertion order, keys pairwise different.
PyDict(entries) == [t |-> "dict", entries |-> entries]
\* An instance of a class that is none of the above.
PyObject(cls, id) == [t |-> "object", cls |-> cls, id |-> id]

\* bool(v): the truth value Python's `if v:` tests.
Truthy(v) ==
    CASE v.t = "NoneType" -> FALSE
      [] v.t = "bool" -> v.b
      [] v.t = "int" -> v.n /= 0
      [] v.t = "str" -> Len(v.s) > 0
      [] v.t \in {"list", "tuple"} -> Len(v.items) > 0
      [] v.t = "dict" -> Len(v.entries) > 0
      [] OTHER -> TRUE

\* The sequences over S of length at most n.
SeqsUpTo(S, n) == UNION {[1..k -> S] : k \in 0..n}

----------------------------------------------------------------------------
(* json.dumps, as EnvSpec.build calls it (default arguments).              *)

Digits == <<"0", "1", "2", "3", "4", "5", "6", "7", "8", "9">>

RECURSIVE NatRepr(_)
NatRepr(n) ==
    IF n < 10 THEN <<Digits[n + 1]>>
    ELSE NatRepr(n \div 10) \o <<Digits[(n % 10) + 1]>>

\* int.__repr__
IntRepr(n) == IF n < 0 THEN <<"-">> \o NatRepr(-n) ELSE NatRepr(n)

RECURSIVE EscapeChars(_)
EscapeChars(s) ==
    IF s = <<>> THEN <<>>
    ELSE (IF Head(s) \in {"\"", "\\"} THEN <<"\\", Head(s)>> ELSE <<Head(s)>>)
         \o EscapeChars(Tail(s))

\* py_encode_basestring_ascii on the characters of the model
EncodeStr(s) == <<"\"">> \o EscapeChars(s) \o <<"\"">>

\* The key types the encoder turns into a string key; any other key raises.
KeyEncodable(k) == k.t \in {"str", "int", "bool", "NoneType"}

KeyText(k) ==
    CASE k.t = "str" -> k.s
      [] k.t = "int" -> IntRepr(k.n)
      [] k.t = "bool" -> IF k.b THEN <<"t", "r", "u", "e">> ELSE <<"f", "a", "l", "s", "e">>
      [] OTHER -> <<"n", "u", "l", "l">>

\* Whether the encoder reaches no object it cannot serialise.
RECURSIVE Encodable(_)
Encodable(v) ==
    CASE v.t \in {"NoneType", "bool", "int", "str"} -> TRUE
      [] v.t \in {"list", "tuple"} -> \A i \in DOMAIN v.items : Encodable(v.items[i])
      [] v.t = "dict" ->
            \A i \in DOMAIN v.entries :
                KeyEncodable(v.entries[i].k) /\ Encodable(v.entries[i].v)
      [] OTHER -> FALSE

RECURSIVE Encode(_), EncodeItems(_), EncodeEntries(_)
Encode(v) ==
    CASE v.t = "NoneType" -> <<"n", "u", "l", "l">>
      [] v.t = "bool" -> IF v.b THEN <<"t", "r", "u", "e">> ELSE <<"f", "a", "l", "s", "e">>
      [] v.t = "int" -> IntRepr(v.n)
      [] v.t = "str" -> EncodeStr(v.s)
      [] v.t \in {"list", "tuple"} -> <<"[">> \o EncodeItems(v.items) \o <<"]">>
      [] v.t = "dict" -> <<"{">> \o EncodeEntries(v.entries) \o <<"}">>

EncodeItems(items) ==
    IF items = <<>> THEN <<>>
    ELSE Encode(Head(items))
         \o (IF Tail(items) = <<>> THEN <<>> ELSE <<",", " ">> \o EncodeItems(Tail(items)))

EncodeEntries(entries) ==
    IF entries = <<>> THEN <<>>
    ELSE EncodeStr(KeyText(Head(entries).k)) \o <<":", " ">> \o Encode(Head(entries).v)
         \o (IF Tail(entries) = <<>> THEN <<>> ELSE <<",", " ">> \o EncodeEntries(Tail(entries)))

\* json.dumps(obj): the text, or the TypeError of an object that is not serialisable.
json_dumps(obj) ==
    IF Encodable(obj) THEN [raised |-> "", text |-> Encode(obj)]
    ELSE [raised |-> "TypeError"]

----------------------------------------------------------------------------
(* json.loads: the decoder a task applies to the value it is handed.       *)

ParseFail == [ok |-> FALSE]
ParseOk(val, next) == [ok |-> TRUE, val |-> val, next |-> next]

CharAt(s, i) == IF i \in DOMAIN s THEN s[i] ELSE "EOF"

RECURSIVE SkipWs(_, _)
SkipWs(s, i) == IF CharAt(s, i) = " " THEN SkipWs(s, i + 1) ELSE i

DigitValue(c) == CHOOSE d \in 0..9 : Digits[d + 1] = c
IsDigit(c) == \E d \in 0..9 : Digits[d + 1] = c

Literal(s, i, word) ==
    /\ i + Len(word) - 1 <= Len(s)
    /\ \A j \in DOMAIN word : s[i + j - 1] = word[j]

\* The digits from position i on, accumulated onto acc.
RECURSIVE ScanDigits(_, _, _)
ScanDigits(s, i, acc) ==
    IF IsDigit(CharAt(s, i)) THEN ScanDigits(s, i + 1, 10 * acc + DigitValue(s[i]))
    ELSE ParseOk(acc, i)

\* NUMBER_RE without fraction and exponent: -?(0|[1-9][0-9]*)
ParseInt(s, i) ==
    LET neg == CharAt(s, i) = "-"
        j == IF neg THEN i + 1 ELSE i
        c == CharAt(s, j)
    IN  IF ~IsDigit(c) THEN ParseFail
        ELSE LET r == IF c = "0" THEN ParseOk(0, j + 1) ELSE ScanDigits(s, j, 0)
             IN  ParseOk(PyInt(IF neg THEN -r.val ELSE r.val), r.next)

\* py_scanstring from the character after the opening quote.
RECURSIVE ScanString(_, _, _)
ScanString(s, i, acc) ==
    LET c == CharAt(s, i)
    IN  CASE c = "EOF" -> ParseFail
          [] c = "\"" -> ParseOk(acc, i + 1)
          [] c = "\\" ->
                IF CharAt(s, i + 1) \in {"\"", "\\"}
                THEN ScanString(s, i + 2, Append(acc, s[i + 1]))
                ELSE ParseFail
          [] OTHER -> ScanString(s, i + 1, Append(acc, c))

\* dict.__setitem__: a key already present keeps its place and takes the value.
DictSet(entries, k, v) ==
    IF \E i \in DOMAIN entries : entries[i].k = k
    THEN [i \in DOMAIN entries |->
            IF entries[i].k = k THEN [k |-> k, v |-> v] ELSE entries[i]]
    ELSE Append(entries, [k |-> k, v |-> v])

RECURSIVE ParseValue(_, _), ParseItems(_, _, _), ParseMembers(_, _, _)
\* scan_once: the value that starts at position i.
ParseValue(s, i) ==
    LET c == CharAt(s, i)
    IN  CASE c = "\"" ->
                LET r == ScanString(s, i + 1, <<>>)
                IN  IF r.ok THEN ParseOk(PyStr(r.val), r.next) ELSE ParseFail
          [] c = "{" ->
                LET j == SkipWs(s, i + 1)
                IN  IF CharAt(s, j) = "}" THEN ParseOk(PyDict(<<>>), j + 1)
                    ELSE ParseMembers(s, j, <<>>)
          [] c = "[" ->
                LET j == SkipWs(s, i + 1)
                IN  IF CharAt(s, j) = "]" THEN ParseOk(PyList(<<>>), j + 1)
                    ELSE ParseItems(s, j, <<>>)
          [] c = "n" -> IF Literal(s, i, <<"n", "u", "l", "l">>)
                        THEN ParseOk(PyNone, i + 4) ELSE ParseFail
          [] c = "t" -> IF Literal(s, i, <<"t", "r", "u", "e">>)
                        THEN ParseOk(PyBool(TRUE), i + 4) ELSE ParseFail
          [] c = "f" -> IF Literal(s, i, <<"f", "a", "l", "s", "e">>)
                        THEN ParseOk(PyBool(FALSE), i + 5) ELSE ParseFail
          [] OTHER -> ParseInt(s, i)

\* JSONArray after the opening bracket: the items from position i on.
ParseItems(s, i, acc) ==
    LET r == ParseValue(s, i)
    IN  IF ~r.ok THEN ParseFail
        ELSE LET j == SkipWs(s, r.next)
                 c == CharAt(s, j)
             IN  CASE c = "]" -> ParseOk(PyList(Append(acc, r.val)), j + 1)
                   [] c = "," -> ParseItems(s, SkipWs(s, j + 1), Append(acc, r.val))
                   [] OTHER -> ParseFail

\* JSONObject after the opening brace: the members from position i on.
ParseMembers(s, i, acc) ==
    IF CharAt(s, i) /= "\"" THEN ParseFail
    ELSE LET k == ScanString(s, i + 1, <<>>)
         IN  IF ~k.ok THEN ParseFail
             ELSE LET j == SkipWs(s, k.next)
                  IN  IF CharAt(s, j) /= ":" THEN ParseFail
                      ELSE LET r == ParseValue(s, SkipWs(s, j + 1))
                           IN  IF ~r.ok THEN ParseFail
                               ELSE LET m == SkipWs(s, r.next)
                                        c == CharAt(s, m)
                                        now == DictSet(acc, PyStr(k.val), r.val)
                                    IN  CASE c = "}" -> ParseOk(PyDict(now), m + 1)
                                          [] c = "," -> ParseMembers(s, SkipWs(s, m + 1), now)
                                          [] OTHER -> ParseFail

\* json.loads(text): the value, or the JSONDecodeError of a text that is no document.
json_loads(text) ==
    LET r == ParseValue(text, SkipWs(text, 1))
    IN  IF r.ok /\ SkipWs(text, r.next) = Len(text) + 1
        THEN [raised |-> "", value |-> r.val]
        ELSE [raised |-> "JSONDecodeError"]

----------------------------------------------------------------------------
(* The outcome of a call.                                                  *)

Returned(value) == [raised |-> "", value |-> value]
Raised(error) == [raised |-> error]

\* What `ret` records of a call: the method, its receiver, its arguments, its outcome.
Call(op, self, args, out) == [op |-> op, self |-> self, args |-> args, out |-> out]

NoCall == Call("", <<>>, <<>>, Returned(PyNone))

----------------------------------------------------------------------------
(* EnvSpec (src/src/hera/env.py).                                          *)

\* argo_workflows.models.EnvVar(name=..., value=...)
EnvVar(name, value) == [name |-> name, value |-> value]

\* The characters of "{{inputs.parameters."
InputsPrefix ==
    <<"{", "{", "i", "n", "p", "u", "t", "s", ".", "p", "a", "r",
      "a", "m", "e", "t", "e", "r", "s", ".">>

\* EnvSpecBuildDumped swallowing the error: an EnvVar without a value.
EnvSpecBuildDumpedLenient(self) ==
    LET d == json_dumps(self.value)
    IN  IF d.raised /= "" THEN Returned(EnvVar(self.name, <<>>))
        ELSE Returned(EnvVar(self.name, d.text))

\* EnvSpec.build with a value that is no str: json.dumps gives the value or raises.
EnvSpecBuildDumped(self) ==
    LET d == json_dumps(self.value)
    IN  IF d.raised /= "" THEN Raised(d.raised)
        ELSE Returned(EnvVar(self.name, d.text))

\* EnvSpec.build without the branch for str: a str is encoded like any value.
EnvSpecBuildAlwaysDumps(self) ==
    IF self.value_from_input /= PyNone
    THEN Returned(EnvVar(self.name, InputsPrefix \o self.name \o <<"}", "}">>))
    ELSE EnvSpecBuildDumped(self)

\* EnvSpec.build
EnvSpecBuild(self) ==
    IF self.value_from_input /= PyNone
    THEN Returned(EnvVar(self.name, InputsPrefix \o self.name \o <<"}", "}">>))
    ELSE IF self.value.t = "str"
    THEN Returned(EnvVar(self.name, self.value.s))
    ELSE EnvSpecBuildDumped(self)

\* The literal values an EnvSpec is given in the model.
EnvAtoms ==
    {PyNone, PyBool(TRUE), PyBool(FALSE), PyInt(-1), PyInt(0), PyInt(12),
     PyStr(<<>>), PyStr(<<"1">>), PyStr(<<"a", "\"">>), PyObject("object", "o")}

EnvKeys == {PyStr(<<"1">>), PyStr(<<"k">>), PyInt(1)}

DistinctKeys(entries) ==
    \A i, j \in DOMAIN entries : i /= j => entries[i].k /= entries[j].k

\* The lists, tuples and dicts of at most MaxLen members of S.
Containers(S) ==
    {PyList(x) : x \in SeqsUpTo(S, MaxLen)}
    \cup {PyTuple(x) : x \in SeqsUpTo(S, MaxLen)}
    \cup {PyDict(x) : x \in {e \in SeqsUpTo([k : EnvKeys, v : S], MaxLen) : DistinctKeys(e)}}

\* The containers holding one member of S.
Nested(S) ==
    {PyList(<<c>>) : c \in S} \cup {PyTuple(<<c>>) : c \in S}
    \cup {PyDict(<<[k |-> PyStr(<<"k">>), v |-> c]>>) : c \in S}

EnvValues == EnvAtoms \cup Containers(EnvAtoms) \cup Nested(Containers(EnvAtoms))

EnvSpecs ==
    [name : {<<"X">>}, value : EnvValues, value_from_input : {PyNone, PyStr(<<"X">>)}]

----------------------------------------------------------------------------
(* The objects of the model.                                               *)

W1 == <<"w", "1">>
W2 == <<"w", "2">>
WorkflowNames == {W1, W2}

\* A DAG the caller builds and hands to a Workflow or to on_exit.
D1 == <<"d", "1">>

T1 == <<"t", "1">>
T2 == <<"t", "2">>
TaskNames == {T1, T2}

P1 == <<"p", "1">>
P2 == <<"p", "2">>
P3 == <<"p", "3">>
ParameterNames == {P1, P2, P3}

\* hera.parameter.Parameter(name, value=...)
Parameter(name, value) == [t |-> "object", cls |-> "Parameter", name |-> name, value |-> value]

\* hera.dag.DAG(name): no tasks, and so no volumes.
DAG(name) == [name |-> name, tasks |-> <<>>, volume_claims |-> <<>>, volumes |-> <<>>]

\* A reference to the DAG object of that name.
DagRef(name) == PyObject("DAG", name)

\* The object a builder method of a collaborator returns for obj.
Built(method, obj) == [t |-> "object", cls |-> method, of |-> obj]

----------------------------------------------------------------------------
(* Workflow.__init__                                                       *)

ArgNames ==
    {"parallelism", "service_account_name", "labels", "annotations",
     "security_context", "image_pull_secrets", "workflow_template_ref",
     "ttl_strategy", "volume_claim_gc_strategy", "host_aliases", "node_selectors",
     "affinity", "parameters", "tolerations"}

\* Every optional argument defaults to None.
NoArgs == [a \in ArgNames |-> PyNone]

OneEntry == <<[k |-> PyStr(<<"k">>), v |-> PyStr(<<"v">>)]>>

\* The values other than None the model gives each optional argument.
ArgOptions(a) ==
    CASE a = "parallelism" -> {PyInt(0), PyInt(2)}
      [] a = "service_account_name" -> {PyStr(<<"s", "a">>)}
      [] a \in {"labels", "annotations", "node_selectors"} -> {PyDict(<<>>), PyDict(OneEntry)}
      [] a = "security_context" -> {PyObject("WorkflowSecurityContext", "sc")}
      [] a = "image_pull_secrets" -> {PyList(<<>>), PyList(<<PyStr(<<"s">>)>>)}
      [] a = "workflow_template_ref" -> {PyStr(<<"r">>)}
      [] a = "ttl_strategy" -> {PyObject("TTLStrategy", "ttl")}
      [] a = "volume_claim_gc_strategy" -> {PyObject("VolumeClaimGCStrategy", "gc")}
      [] a = "host_aliases" -> {PyList(<<>>), PyList(<<PyObject("HostAlias", "h")>>)}
      [] a = "affinity" -> {PyObject("Affinity", "af")}
      [] a = "parameters" ->
            {PyList(<<>>), PyList(<<Parameter(P1, <<"1">>)>>),
             PyList(<<Parameter(P1, <<"1">>), Parameter(P2, <<>>)>>)}
      [] a = "tolerations" -> {PyList(<<>>), PyList(<<PyObject("Toleration", "tol")>>)}

\* The arguments that give exactly the arguments of S a value.
RECURSIVE ArgsOver(_)
ArgsOver(S) ==
    IF S = {} THEN {NoArgs}
    ELSE LET a == CHOOSE x \in S : TRUE
         IN  {[c EXCEPT ![a] = v] : c \in ArgsOver(S \ {a}), v \in ArgOptions(a)}

\* The optional arguments of the model: at most MaxOptionsSet of them given.
ArgSets ==
    UNION {ArgsOver(S) : S \in {X \in SUBSET ArgNames : Cardinality(X) <= MaxOptionsSet}}

\* Workflow.__init__(name, ..., dag=dag): the attributes of the new object.
WorkflowInit(name, args, dag) ==
    [name |-> name,
     parallelism |-> args.parallelism,
     security_context |-> args.security_context,
     service_account_name |-> args.service_account_name,
     labels |-> args.labels,
     annotations |-> args.annotations,
     image_pull_secrets |-> args.image_pull_secrets,
     workflow_template_ref |-> args.workflow_template_ref,
     node_selector |-> args.node_selectors,
     ttl_strategy |-> args.ttl_strategy,
     affinity |-> args.affinity,
     parameters |-> args.parameters,
     tolerations |-> args.tolerations,
     in_context |-> FALSE,
     volume_claim_gc_strategy |-> args.volume_claim_gc_strategy,
     host_aliases |-> args.host_aliases,
     dag |-> dag,
     exit_task |-> PyNone,
     tasks |-> <<>>]

----------------------------------------------------------------------------
(* The DAG a Workflow compiles (hera.dag).                                 *)

\* The Task objects of a DAG, in the order they were added.
DagTasks(dag) == [i \in DOMAIN dag.tasks |-> tasks[dag.tasks[i]]]

\* DAG._build_templates: one template for each task of the DAG.
DagBuildTemplates(dag) ==
    [i \in DOMAIN dag.tasks |-> [name |-> DagTasks(dag)[i].name]]

NotExitTask(task) == ~task.is_exit_task

\* DAG.build: the template of the DAG itself, which runs the tasks that are no exit task.
DagBuild(dag) ==
    LET run == SelectSeq(DagTasks(dag), NotExitTask)
    IN  <<[name |-> dag.name, dag |-> [i \in DOMAIN run |-> run[i].name]]>>

\* DAG._build_volume_claim_templates
DagBuildVolumeClaimTemplates(dag) == dag.volume_claims

\* DAG._build_persistent_volume_claims
DagBuildPersistentVolumeClaims(dag) == dag.volumes

----------------------------------------------------------------------------
(* Workflow.build                                                          *)

\* The attributes _build_metadata sets on the ObjectMeta.
MetadataFields(self, use_name) ==
    (IF use_name THEN {"name"} ELSE {})
    \cup (IF Truthy(self.labels) THEN {"labels"} ELSE {})
    \cup (IF Truthy(self.annotations) THEN {"annotations"} ELSE {})

\* Workflow._build_metadata
_build_metadata(self, use_name) ==
    [f \in MetadataFields(self, use_name) |->
        CASE f = "name" -> self.name
          [] f = "labels" -> self.labels
          [] f = "annotations" -> self.annotations]

\* TolerationsField testing the truth value: `if self.tolerations:`.
TolerationsFieldIfTruthy(self) == IF Truthy(self.tolerations) THEN {"tolerations"} ELSE {}

\* _build_spec, lines 188-190: the tolerations, if not None.
TolerationsField(self) == IF self.tolerations /= PyNone THEN {"tolerations"} ELSE {}

\* OnExitField without its test: on_exit set to None when there is no exit task.
OnExitFieldAlways(self) == {"on_exit"}

\* _build_spec, lines 200-201: the exit task, if not None.
OnExitField(self) == IF self.exit_task /= PyNone THEN {"on_exit"} ELSE {}

\* The attributes _build_spec sets on the WorkflowSpec of a workflow with that DAG.
SpecFields(self, dag, workflow_template) ==
    (IF ~workflow_template THEN {"entrypoint"} ELSE {})
    \cup {"templates"}
    \cup (IF self.parallelism /= PyNone THEN {"parallelism"} ELSE {})
    \cup (IF self.ttl_strategy /= PyNone THEN {"ttl_strategy"} ELSE {})
    \cup (IF self.volume_claim_gc_strategy /= PyNone THEN {"volume_claim_gc"} ELSE {})
    \cup (IF self.host_aliases /= PyNone THEN {"host_aliases"} ELSE {})
    \cup (IF self.security_context /= PyNone THEN {"security_context"} ELSE {})
    \cup (IF self.service_account_name /= PyNone THEN {"service_account_name"} ELSE {})
    \cup (IF self.image_pull_secrets /= PyNone THEN {"image_pull_secrets"} ELSE {})
    \cup (IF self.parameters /= PyNone THEN {"arguments"} ELSE {})
    \cup (IF self.affinity /= PyNone THEN {"affinity"} ELSE {})
    \cup (IF self.node_selector /= PyNone THEN {"node_selector"} ELSE {})
    \cup TolerationsField(self)
    \cup (IF Len(DagBuildVolumeClaimTemplates(dag)) > 0 THEN {"volume_claim_templates"} ELSE {})
    \cup (IF Len(DagBuildPersistentVolumeClaims(dag)) > 0 THEN {"volumes"} ELSE {})
    \cup OnExitField(self)

\* [method(x) for x in xs]
BuiltEach(method, xs) == PyList([i \in DOMAIN xs.items |-> Built(method, xs.items[i])])

\* The value _build_spec sets attribute f to.
SpecValue(self, dag, workflow_template, f) ==
    CASE f = "entrypoint" -> self.name
      [] f = "templates" ->
            DagBuildTemplates(dag) \o (IF ~workflow_template THEN DagBuild(dag) ELSE <<>>)
      [] f = "parallelism" -> self.parallelism
      [] f = "ttl_strategy" -> Built("TTLStrategy.build", self.ttl_strategy)
      [] f = "volume_claim_gc" -> Built("VolumeClaimGC", self.volume_claim_gc_strategy)
      [] f = "host_aliases" -> BuiltEach("argo_host_alias", self.host_aliases)
      [] f = "security_context" -> Built("get_security_context", self.security_context)
      [] f = "service_account_name" -> self.service_account_name
      [] f = "image_pull_secrets" -> BuiltEach("LocalObjectReference", self.image_pull_secrets)
      [] f = "arguments" -> Built("Arguments", BuiltEach("as_argument", self.parameters))
      [] f = "affinity" -> Built("Affinity._build", self.affinity)
      [] f = "node_selector" -> self.node_selector
      [] f = "tolerations" -> BuiltEach("Toleration.build", self.tolerations)
      [] f = "volume_claim_templates" -> DagBuildVolumeClaimTemplates(dag)
      [] f = "volumes" -> DagBuildPersistentVolumeClaims(dag)
      [] f = "on_exit" -> self.exit_task

\* Workflow._build_spec: `assert self.dag is not None`, then the WorkflowSpec.
_build_spec(self, workflow_template) ==
    IF self.dag = PyNone THEN Raised("AssertionError")
    ELSE LET dag == dags[self.dag.id]
         IN  Returned([f \in SpecFields(self, dag, workflow_template) |->
                          SpecValue(self, dag, workflow_template, f)])

\* Workflow.build with the scope check create makes.
buildOutsideScope(self) ==
    LET metadata == _build_metadata(self, TRUE)
        spec == _build_spec(self, FALSE)
    IN  IF self.in_context THEN Raised("ValueError")
        ELSE IF spec.raised /= "" THEN spec
        ELSE Returned([metadata |-> metadata, spec |-> spec.value])

\* Workflow.build
build(self) ==
    LET metadata == _build_metadata(self, TRUE)
        spec == _build_spec(self, FALSE)
    IN  IF spec.raised /= "" THEN spec
        ELSE Returned([metadata |-> metadata, spec |-> spec.value])

----------------------------------------------------------------------------
(* hera.dag_context and hera.task.Task.                                    *)

\* dag_context.enter as a stack that nests.
DagContextEnterNested(context, dag) == Returned(Append(context, dag))

\* dag_context.enter(dag): a second scope while one is active is rejected.
DagContextEnter(context, dag) ==
    IF context /= <<>> THEN Raised("InvalidStateError")
    ELSE Returned(Append(context, dag))

\* dag_context.exit(): clears the current scope.
DagContextExit(context) == <<>>

\* Task(name, dag=dag): the attributes of the new object.
Task(name, dag) == [name |-> name, is_exit_task |-> FALSE, dag |-> dag]

\* Task.__init__ inside an active scope: the new task, the id-th, joins the current DAG.
Registered(all_dags, context, id) ==
    IF context = <<>> THEN all_dags
    ELSE [all_dags EXCEPT ![context[Len(context)]].tasks = Append(@, id)]

TaskRef(id) == PyObject("Task", id)
WorkflowRef(name) == PyObject("Workflow", name)

\* The characters of "temp-name-for-hera-exit-dag"
TempName ==
    <<"t", "e", "m", "p", "-", "n", "a", "m", "e", "-", "f", "o",
      "r", "-", "h", "e", "r", "a", "-", "e", "x", "i", "t", "-",
      "d", "a", "g">>

\* The characters of "{{workflow.parameters."
WorkflowParametersPrefix ==
    <<"{", "{", "w", "o", "r", "k", "f", "l", "o", "w", ".", "p",
      "a", "r", "a", "m", "e", "t", "e", "r", "s", ".">>

----------------------------------------------------------------------------
(* The operations of a Workflow.                                           *)

\* The caller constructs Task(name), inside or outside a scope.
NewTask(name) ==
    /\ Len(tasks) < MaxTasks
    /\ \A i \in DOMAIN tasks : tasks[i].name /= name
    /\ tasks' = Append(tasks, Task(name, PyNone))
    /\ dags' = Registered(dags, dag_context, Len(tasks) + 1)
    /\ ret' = Call("Task", name, <<>>, Returned(TaskRef(Len(tasks) + 1)))
    /\ UNCHANGED <<workflows, dag_context, with_open, service_calls, env>>

\* EnterRaises without the check for a DAG already set.
EnterRaisesNever(self) == ""

\* What __enter__ raises before it creates a DAG: the workflow has one already.
EnterRaises(self) == IF Truthy(self.dag) THEN "ValueError" ELSE ""

\* Workflow.__enter__: `with w:` begins.
__enter__(w) ==
    LET self == workflows[w]
        dag == DAG(self.name)
        pushed == DagContextEnter(dag_context, dag.name)
    IN  IF EnterRaises(self) /= ""
        THEN /\ workflows' = [workflows EXCEPT ![w].in_context = TRUE]
             /\ ret' = Call("__enter__", w, <<>>, Raised(EnterRaises(self)))
             /\ UNCHANGED <<dags, tasks, dag_context, with_open, service_calls, env>>
        ELSE /\ workflows' =
                    [workflows EXCEPT ![w].in_context = TRUE, ![w].dag = DagRef(dag.name)]
             /\ dags' = [n \in DOMAIN dags \cup {dag.name} |->
                            IF n = dag.name THEN dag ELSE dags[n]]
             /\ IF pushed.raised /= ""
                THEN /\ ret' = Call("__enter__", w, <<>>, pushed)
                     /\ UNCHANGED <<dag_context, with_open>>
                ELSE /\ dag_context' = pushed.value
                     /\ with_open' = with_open \cup {w}
                     /\ ret' = Call("__enter__", w, <<>>, Returned(WorkflowRef(w)))
             /\ UNCHANGED <<tasks, service_calls, env>>

\* Workflow.__exit__: the `with w:` block the caller is inside ends.
__exit__(w) ==
    /\ w \in with_open
    /\ workflows' = [workflows EXCEPT ![w].in_context = FALSE]
    /\ dag_context' = DagContextExit(dag_context)
    /\ with_open' = with_open \ {w}
    /\ ret' = Call("__exit__", w, <<>>, Returned(PyNone))
    /\ UNCHANGED <<dags, tasks, service_calls, env>>

\* CreateRaises without the scope check.
CreateRaisesUnscoped(self) == IF ~Truthy(self.dag) THEN "AssertionError" ELSE ""

\* What create raises before it submits: `assert self.dag`, then the scope check.
CreateRaises(self) ==
    IF ~Truthy(self.dag) THEN "AssertionError"
    ELSE IF self.in_context THEN "ValueError"
    ELSE ""

\* Workflow.create
create(w) ==
    LET self == workflows[w]
        manifest == build(self)
    IN  IF CreateRaises(self) /= ""
        THEN /\ ret' = Call("create", w, <<>>, Raised(CreateRaises(self)))
             /\ UNCHANGED <<workflows, dags, tasks, dag_context, with_open, service_calls, env>>
        ELSE IF manifest.raised /= ""
        THEN /\ ret' = Call("create", w, <<>>, manifest)
             /\ UNCHANGED <<workflows, dags, tasks, dag_context, with_open, service_calls, env>>
        ELSE /\ Len(service_calls) < MaxCreate
             /\ service_calls' = Append(service_calls, [service |-> w, workflow |-> manifest.value])
             /\ ret' = Call("create", w, <<>>, Returned(WorkflowRef(w)))
             /\ UNCHANGED <<workflows, dags, tasks, dag_context, with_open, env>>

\* The caller calls Workflow.build.
Build(w) ==
    /\ ret' = Call("build", w, <<>>, build(workflows[w]))
    /\ UNCHANGED <<workflows, dags, tasks, dag_context, with_open, service_calls, env>>

\* ExitTaskName taking the name of the stand-in task for a Task too.
ExitTaskNameTemp(other) ==
    IF other.cls = "Task" THEN TempName ELSE dags[other.id].name

\* The name on_exit records as the exit task: that of the task or DAG it is given.
ExitTaskName(other) ==
    IF other.cls = "Task" THEN tasks[other.id].name ELSE dags[other.id].name

\* Workflow.on_exit(other), other a Task or a DAG.
on_exit(w, other) ==
    /\ workflows' = [workflows EXCEPT ![w].exit_task = PyStr(ExitTaskName(other))]
    /\ IF other.cls = "Task"
       THEN /\ tasks' = [tasks EXCEPT ![other.id].is_exit_task = TRUE]
            /\ UNCHANGED dags
       ELSE /\ Len(tasks) < MaxTasks
            /\ tasks' = Append(tasks, [Task(TempName, other) EXCEPT !.is_exit_task = TRUE])
            /\ dags' = Registered(dags, dag_context, Len(tasks) + 1)
    /\ ret' = Call("on_exit", w, <<other>>, Returned(PyNone))
    /\ UNCHANGED <<dag_context, with_open, service_calls, env>>

\* hera.workflow_editors.add_tasks(w, *ts): the tasks join the task list of the
\* workflow's DAG, in the order given.
EditorAddTasks(dag, ts) == [dag EXCEPT !.tasks = @ \o ts]

\* The outcomes of the editor call, each the error raised ("" for none) and
\* the DAGs it leaves. With a DAG the tasks join its list, whatever the list
\* holds already. What the editor does with a workflow without a DAG is stated
\* nowhere: it returns, changing nothing, or it raises.
EditorOutcomes(all_dags, self, ts) ==
    IF self.dag = PyNone
    THEN {[raised |-> "", dags |-> all_dags], [raised |-> "Exception", dags |-> all_dags]}
    ELSE {[raised |-> "",
           dags |-> [all_dags EXCEPT ![self.dag.id] = EditorAddTasks(@, ts)]]}

\* The body add_task and add_tasks share: the editor is called with the
\* workflow and the tasks, and self is returned unless the editor raised.
AddTasks(op, w, ts) ==
    LET self == workflows[w]
    IN  /\ self.dag /= PyNone => Len(dags[self.dag.id].tasks) + Len(ts) <= MaxDagTasks
        /\ \E outcome \in EditorOutcomes(dags, self, ts) :
                /\ dags' = outcome.dags
                /\ ret' = Call(op, w, [i \in DOMAIN ts |-> TaskRef(ts[i])],
                               IF outcome.raised = ""
                               THEN Returned(WorkflowRef(w))
                               ELSE Raised(outcome.raised))
        /\ UNCHANGED <<workflows, tasks, dag_context, with_open, service_calls, env>>

\* Workflow.add_task(t), t the id-th Task constructed.
add_task(w, t) == AddTasks("add_task", w, <<t>>)

\* Workflow.add_tasks(*ts)
add_tasks(w, ts) == AddTasks("add_tasks", w, ts)

\* ParameterMissing without the search for the name.
ParameterMissingIfNone(self, name) == self.parameters = PyNone

\* Whether get_parameter finds no parameter of that name.
ParameterMissing(self, name) ==
    \/ self.parameters = PyNone
    \/ ~\E i \in DOMAIN self.parameters.items : self.parameters.items[i].name = name

\* Workflow.get_parameter
get_parameter(self, name) ==
    IF ParameterMissing(self, name) THEN Raised("KeyError")
    ELSE Returned(Parameter(name, WorkflowParametersPrefix \o name \o <<"}", "}">>))

\* The caller calls Workflow.get_parameter.
GetParameter(w, name) ==
    /\ ret' = Call("get_parameter", w, <<name>>, get_parameter(workflows[w], name))
    /\ UNCHANGED <<workflows, dags, tasks, dag_context, with_open, service_calls, env>>

\* The caller calls EnvSpec.build.
EnvBuild ==
    /\ ret' = Call("EnvSpec.build", env.name, <<>>, EnvSpecBuild(env))
    /\ UNCHANGED <<workflows, dags, tasks, dag_context, with_open, service_calls, env>>

----------------------------------------------------------------------------
(* The specifications.                                                     *)

\* The objects a Task or a DAG argument can name.
Others == {TaskRef(i) : i \in DOMAIN tasks} \cup {DagRef(d) : d \in DOMAIN dags}

NoEnv == [name |-> <<"X">>, value |-> PyNone, value_from_input |-> PyNone]

\* Two workflows, each constructed with or without the DAG D1, and no task yet.
Init ==
    /\ \E given \in [WorkflowNames -> {PyNone, DagRef(D1)}] :
            workflows = [w \in WorkflowNames |-> WorkflowInit(w, NoArgs, given[w])]
    /\ dags = [d \in {D1} |-> DAG(d)]
    /\ tasks = <<>>
    /\ dag_context = <<>>
    /\ with_open = {}
    /\ service_calls = <<>>
    /\ ret = NoCall
    /\ env = NoEnv

Next ==
    \/ \E w \in WorkflowNames : __enter__(w)
    \/ \E w \in WorkflowNames : __exit__(w)
    \/ \E w \in WorkflowNames : create(w)
    \/ \E w \in WorkflowNames : Build(w)

\* Scopes, builds and submissions of two workflows.
Spec == Init /\ [][Next]_vars

NextExit ==
    \/ \E name \in TaskNames : NewTask(name)
    \/ __enter__(W1)
    \/ __exit__(W1)
    \/ \E other \in Others : on_exit(W1, other)
    \/ Build(W1)

\* Workflow('w1') or Workflow('w1', dag=d1), no task constructed yet; W2 is not
\* called here and is constructed without a DAG.
InitExit ==
    /\ \E given \in {PyNone, DagRef(D1)} :
            workflows = [w \in WorkflowNames |->
                WorkflowInit(w, NoArgs, IF w = W1 THEN given ELSE PyNone)]
    /\ dags = [d \in {D1} |-> DAG(d)]
    /\ tasks = <<>>
    /\ dag_context = <<>>
    /\ with_open = {}
    /\ service_calls = <<>>
    /\ ret = NoCall
    /\ env = NoEnv

\* Tasks and exit handlers of the workflow W1, inside and outside its scope.
SpecExit == InitExit /\ [][NextExit]_vars

NextEdit ==
    \/ \E name \in TaskNames : NewTask(name)
    \/ __enter__(W1)
    \/ __exit__(W1)
    \/ \E t \in DOMAIN tasks : add_task(W1, t)
    \/ \E ts \in SeqsUpTo(DOMAIN tasks, MaxDagTasks) : add_tasks(W1, ts)
    \/ Build(W1)

\* Tasks joining the DAG of the workflow W1, by construction inside its scope
\* and by add_task and add_tasks, inside and outside its scope.
SpecEdit == InitExit /\ [][NextEdit]_vars

\* A volume of a task of the DAG, as the DAG compiles it.
Vol == PyObject("Volume", "v")

\* The workflow W1 constructed with the DAG D1 and some optional arguments; D1
\* with or without volumes; W1 with or without the task T1 as its exit task.
InitConfig ==
    /\ \E args \in ArgSets, exiting \in BOOLEAN :
        /\ workflows =
              [w \in WorkflowNames |->
                  IF w = W1
                  THEN [WorkflowInit(w, args, DagRef(D1)) EXCEPT
                           !.exit_task = IF exiting THEN PyStr(T1) ELSE PyNone]
                  ELSE WorkflowInit(w, NoArgs, PyNone)]
        /\ tasks = IF exiting THEN <<[Task(T1, PyNone) EXCEPT !.is_exit_task = TRUE]>> ELSE <<>>
    /\ \E vc \in {<<>>, <<Vol>>}, vs \in {<<>>, <<Vol>>} :
            dags = [d \in {D1} |-> [DAG(d) EXCEPT !.volume_claims = vc, !.volumes = vs]]
    /\ dag_context = <<>>
    /\ with_open = {}
    /\ service_calls = <<>>
    /\ ret = NoCall
    /\ env = NoEnv

NextConfig ==
    \/ Build(W1)
    \/ \E name \in ParameterNames : GetParameter(W1, name)

\* Builds and parameter lookups of a workflow over its constructor arguments.
SpecConfig == InitConfig /\ [][NextConfig]_vars

InitEnv ==
    /\ env \in EnvSpecs
    /\ workflows = [w \in WorkflowNames |-> WorkflowInit(w, NoArgs, PyNone)]
    /\ dags = [d \in {D1} |-> DAG(d)]
    /\ tasks = <<>>
    /\ dag_context = <<>>
    /\ with_open = {}
    /\ service_calls = <<>>
    /\ ret = NoCall

NextEnv == EnvBuild

\* The build of an environment-variable specification over its literal values.
SpecEnv == InitEnv /\ [][NextEnv]_vars

----------------------------------------------------------------------------
(* The claims.                                                             *)

\* C1: create() called while the workflow is inside its scope (its `with` block
\* is open) raises the invalid-state error (a ValueError) and hands nothing to
\* the service: service_calls is left as it was.
C1_CreateInScopeRejected ==
    [][\A w \in WorkflowNames :
          (w \in with_open /\ create(w)) =>
              /\ ret'.out.raised = "ValueError"
              /\ service_calls' = service_calls]_vars

\* C1 happens: a create() inside the scope has just been rejected.
C1_Witness ==
    /\ ret.op = "create"
    /\ ret.self \in with_open
    /\ ret.out.raised = "ValueError"

\* C2: entering a workflow that already has a DAG (from the constructor or from
\* an earlier entry) raises the invalid-state error (a ValueError); no DAG is
\* created, the workflow keeps its DAG, and the DAG context is left as it was.
C2_EnterWithDagRejected ==
    [][\A w \in WorkflowNames :
          (workflows[w].dag /= PyNone /\ __enter__(w)) =>
              /\ ret'.out.raised = "ValueError"
              /\ dags' = dags
              /\ workflows'[w].dag = workflows[w].dag
              /\ dag_context' = dag_context]_vars

\* C2 happens: a workflow whose DAG is left over from its earlier entry, since
\* closed, has just been entered again and rejected.
C2_Witness ==
    /\ ret.op = "__enter__"
    /\ ret.out.raised = "ValueError"
    /\ workflows[ret.self].dag = DagRef(ret.self)
    /\ ret.self \notin with_open

\* The optional values of a Workflow that C3 and C10 name, as attributes.
OptionalAttrs ==
    {"parallelism", "ttl_strategy", "volume_claim_gc_strategy", "host_aliases",
     "security_context", "service_account_name", "image_pull_secrets", "parameters",
     "affinity", "node_selector", "tolerations", "labels", "annotations", "exit_task"}

\* The list- and dict-valued ones among them.
CollectionAttrs ==
    {"host_aliases", "image_pull_secrets", "parameters", "node_selector",
     "tolerations", "labels", "annotations"}

\* Whether the manifest m holds the field that carries attribute a.
HasField(m, a) ==
    CASE a \in {"labels", "annotations"} -> a \in DOMAIN m.metadata
      [] a = "parameters" -> "arguments" \in DOMAIN m.spec
      [] a = "volume_claim_gc_strategy" -> "volume_claim_gc" \in DOMAIN m.spec
      [] a = "exit_task" -> "on_exit" \in DOMAIN m.spec
      [] OTHER -> a \in DOMAIN m.spec

\* An empty list, dict or str.
IsEmpty(v) ==
    \/ v.t \in {"list", "tuple"} /\ v.items = <<>>
    \/ v.t = "dict" /\ v.entries = <<>>
    \/ v.t = "str" /\ v.s = <<>>

\* The last call was a build() of a workflow with a DAG, and returned a manifest.
BuiltManifest == ret.op = "build" /\ ret.out.raised = ""

\* C3: build() on a workflow with none of its optional values set, and a DAG
\* without volumes, returns a manifest that holds metadata.name, spec.entrypoint
\* and spec.templates and no other field.
C3_NothingSetNothingEmitted ==
    LET self == workflows[ret.self]
    IN  (/\ ret.op = "build"
         /\ self.dag /= PyNone
         /\ \A a \in OptionalAttrs : self[a] = PyNone
         /\ dags[self.dag.id].volume_claims = <<>>
         /\ dags[self.dag.id].volumes = <<>>)
        => /\ ret.out.raised = ""
           /\ DOMAIN ret.out.value.metadata = {"name"}
           /\ DOMAIN ret.out.value.spec = {"entrypoint", "templates"}
           /\ ret.out.value.metadata.name = self.name
           /\ ret.out.value.spec.entrypoint = self.name

\* C3 happens: a workflow with nothing optional set has just been built.
C3_Witness ==
    /\ BuiltManifest
    /\ \A a \in OptionalAttrs : workflows[ret.self][a] = PyNone
    /\ workflows[ret.self].workflow_template_ref = PyNone
    /\ dags[workflows[ret.self].dag.id].volume_claims = <<>>
    /\ dags[workflows[ret.self].dag.id].volumes = <<>>

\* C4: on_exit(task) with a Task marks the task as an exit task; on_exit records
\* the name of what it is given as the workflow's exit task, nothing but on_exit
\* changes that record, and every build() that returns a manifest emits on_exit
\* equal to it: the name the last on_exit call gave.
C4_OnExitLastCallWins ==
    [][/\ \A other \in Others :
            on_exit(W1, other) =>
                /\ workflows'[W1].exit_task = PyStr(IF other.cls = "Task"
                                                    THEN tasks[other.id].name
                                                    ELSE other.id)
                /\ other.cls = "Task" => tasks'[other.id].is_exit_task
       /\ workflows'[W1].exit_task /= workflows[W1].exit_task =>
            \E other \in Others : on_exit(W1, other)
       /\ (Build(W1) /\ ret'.out.raised = "" /\ workflows[W1].exit_task /= PyNone) =>
            /\ "on_exit" \in DOMAIN ret'.out.value.spec
            /\ ret'.out.value.spec.on_exit = workflows[W1].exit_task]_vars

\* C4 happens: on_exit has been called with each of two tasks, and the build
\* that followed emitted the name of one of them.
C4_Witness ==
    /\ BuiltManifest
    /\ Len(tasks) = 2
    /\ \A i \in DOMAIN tasks : tasks[i].is_exit_task /\ tasks[i].name \in TaskNames
    /\ ret.out.value.spec.on_exit = PyStr(T1)

\* Values built only of None, booleans, integers, strings, lists and dicts
\* whose keys are strings: the values JSON has a form of its own for.
RECURSIVE JsonNative(_)
JsonNative(v) ==
    CASE v.t \in {"NoneType", "bool", "int", "str"} -> TRUE
      [] v.t = "list" -> \A i \in DOMAIN v.items : JsonNative(v.items[i])
      [] v.t = "dict" ->
            \A i \in DOMAIN v.entries :
                v.entries[i].k.t = "str" /\ JsonNative(v.entries[i].v)
      [] OTHER -> FALSE

\* The last call built an EnvSpec of a literal value and the round trip holds:
\* a str came out verbatim, any other value came out as a text that decodes to it.
RoundTrips ==
    /\ ret.out.raised = ""
    /\ ret.out.value.name = env.name
    /\ IF env.value.t = "str"
       THEN ret.out.value.value = env.value.s
       ELSE json_loads(ret.out.value.value) = Returned(env.value)

\* C5 as claimed: every str and every JSON-encodable literal value round-trips.
C5_Original ==
    (/\ ret.op = "EnvSpec.build"
     /\ env.value_from_input = PyNone
     /\ Encodable(env.value))
    => RoundTrips

\* C5, amended: a literal value that is a str, or is built only of None,
\* booleans, integers, strings, lists and dicts with string keys, round-trips:
\* a str is emitted verbatim, any other such value as its JSON encoding, which
\* decodes to the same value.
C5_NativeValuesRoundTrip ==
    (/\ ret.op = "EnvSpec.build"
     /\ env.value_from_input = PyNone
     /\ JsonNative(env.value))
    => RoundTrips

\* C5 happens: a dict holding a list that holds a str with a quote has been built.
C5_Witness ==
    /\ ret.op = "EnvSpec.build"
    /\ env.value_from_input = PyNone
    /\ env.value = PyDict(<<[k |-> PyStr(<<"k">>),
                             v |-> PyList(<<PyStr(<<"a", "\"">>), PyInt(-1)>>)]>>)
    /\ ret.out.raised = ""

\* C6 as claimed: a build() inside the workflow's scope raises.
C6_Original ==
    (ret.op = "build" /\ ret.self \in with_open) => ret.out.raised /= ""

\* C6, amended: build() makes no scope check: inside the workflow's scope it
\* returns the manifest of the workflow, entry point and templates included, and
\* changes nothing; of the two, only create() is rejected inside a scope.
C6_BuildInScopeReturns ==
    [][\A w \in WorkflowNames :
          (w \in with_open /\ Build(w)) =>
              /\ ret'.out.raised = ""
              /\ ret'.out.value.metadata.name = w
              /\ ret'.out.value.spec.entrypoint = w
              /\ "templates" \in DOMAIN ret'.out.value.spec
              /\ workflows' = workflows]_vars

\* C6 happens: a build() inside the scope has just returned a manifest.
C6_Witness ==
    /\ BuiltManifest
    /\ ret.self \in with_open
    /\ workflows[ret.self].in_context

\* C7: the DAG context never holds more than one DAG and at most one `with`
\* block is open; an entry while a scope is active, of the same or of another
\* workflow, raises and leaves the DAG context as it was.
C7_SingleScope ==
    /\ [](Len(dag_context) <= 1 /\ Cardinality(with_open) <= 1)
    /\ [][\A w \in WorkflowNames :
            (dag_context /= <<>> /\ __enter__(w)) =>
                /\ ret'.out.raised /= ""
                /\ dag_context' = dag_context
                /\ with_open' = with_open]_vars

\* C7 happens: with the scope of one workflow open, the entry of the other
\* workflow has just been rejected by the DAG context.
C7_Witness ==
    /\ ret.op = "__enter__"
    /\ ret.out.raised = "InvalidStateError"
    /\ with_open = WorkflowNames \ {ret.self}
    /\ Len(dag_context) = 1

\* The characters of "{{workflow.parameters.<name>}}", spelled out.
Reference(name) ==
    <<"{", "{", "w", "o", "r", "k", "f", "l", "o", "w", ".", "p",
      "a", "r", "a", "m", "e", "t", "e", "r", "s", ".">>
    \o name \o <<"}", "}">>

\* C8: get_parameter(name) returns the Parameter named name with the value
\* {{workflow.parameters.<name>}} when the workflow's parameters hold one of
\* that name, and raises KeyError, returning nothing, when the workflow has no
\* parameters or none of that name.
C8_GetParameter ==
    LET self == workflows[ret.self]
        name == ret.args[1]
        held == /\ self.parameters /= PyNone
                /\ \E i \in DOMAIN self.parameters.items :
                        self.parameters.items[i].name = name
    IN  ret.op = "get_parameter" =>
            IF held
            THEN /\ ret.out.raised = ""
                 /\ ret.out.value.name = name
                 /\ ret.out.value.value = Reference(name)
            ELSE /\ ret.out.raised = "KeyError"
                 /\ "value" \notin DOMAIN ret.out

\* C8 happens: the second of two parameters has just been looked up and found.
C8_Witness ==
    /\ ret.op = "get_parameter"
    /\ ret.args = <<P2>>
    /\ workflows[ret.self].parameters /= PyNone
    /\ Len(workflows[ret.self].parameters.items) = 2
    /\ ret.out.raised = ""

\* C9: EnvSpec.build() on a literal value that is no str and that json.dumps
\* cannot encode raises the serialisation error (a TypeError) and returns
\* nothing, no part of an EnvVar either.
C9_NotEncodableRaises ==
    (/\ ret.op = "EnvSpec.build"
     /\ env.value_from_input = PyNone
     /\ env.value.t /= "str"
     /\ ~Encodable(env.value))
    => /\ ret.out.raised = "TypeError"
       /\ DOMAIN ret.out = {"raised"}

\* C9 happens: a list whose second member cannot be encoded has just been built.
C9_Witness ==
    /\ ret.op = "EnvSpec.build"
    /\ env.value_from_input = PyNone
    /\ env.value = PyList(<<PyInt(0), PyObject("object", "o")>>)
    /\ ret.out.raised = "TypeError"

\* C10 as claimed: an empty list or dict yields no field, as None does.
C10_Original ==
    BuiltManifest =>
        \A a \in CollectionAttrs :
            (workflows[ret.self][a] = PyNone \/ IsEmpty(workflows[ret.self][a]))
                => ~HasField(ret.out.value, a)

\* The optional values build() tests with `is not None`.
NotNoneAttrs == OptionalAttrs \ {"labels", "annotations"}

\* C10, amended: build() sets the field of labels and of annotations only when
\* the value is non-empty; it sets the field of every other optional value
\* exactly when the value is not None, so that an empty host_aliases,
\* image_pull_secrets, parameters, node_selectors or tolerations yields a field
\* holding an empty value; the volume fields are set exactly when the DAG has
\* such volumes.
C10_FieldsSetWhenNotNone ==
    LET self == workflows[ret.self]
        m == ret.out.value
        dag == dags[self.dag.id]
    IN  BuiltManifest =>
            /\ \A a \in {"labels", "annotations"} :
                    HasField(m, a) <=> (self[a] /= PyNone /\ ~IsEmpty(self[a]))
            /\ \A a \in NotNoneAttrs : HasField(m, a) <=> self[a] /= PyNone
            /\ \A a \in {"host_aliases", "image_pull_secrets", "tolerations"} :
                    self[a] = PyList(<<>>) => m.spec[a] = PyList(<<>>)
            /\ self.node_selector = PyDict(<<>>) => m.spec.node_selector = PyDict(<<>>)
            /\ self.parameters = PyList(<<>>) =>
                    m.spec.arguments = Built("Arguments", PyList(<<>>))
            /\ "volume_claim_templates" \in DOMAIN m.spec <=> dag.volume_claims /= <<>>
            /\ "volumes" \in DOMAIN m.spec <=> dag.volumes /= <<>>

\* C10 happens: a workflow with an empty list of tolerations and an empty dict
\* of labels has been built: the manifest holds tolerations and no labels.
C10_Witness ==
    /\ BuiltManifest
    /\ workflows[ret.self].tolerations = PyList(<<>>)
    /\ workflows[ret.self].labels = PyDict(<<>>)
    /\ "tolerations" \in DOMAIN ret.out.value.spec
    /\ "labels" \notin DOMAIN ret.out.value.metadata

\* C11 as claimed: after any calls of __enter__, __exit__ and create(), failed
\* entries included, in_context is true exactly when the workflow is between a
\* successful __enter__ and its __exit__ (its `with` block is open); so a
\* create() of a workflow with a DAG, outside any scope, is not rejected.
C11_Original ==
    /\ \A w \in WorkflowNames : workflows[w].in_context <=> w \in with_open
    /\ (/\ ret.op = "create"
        /\ ret.self \notin with_open
        /\ workflows[ret.self].dag /= PyNone)
       => ret.out.raised = ""

====
